---- MODULE Spec2Model ----
(***************************************************************************)
(* Model of the action server in RasaChatBot/actions/actions.py.           *)
(*                                                                         *)
(* Strings the code inspects character by character (the latest text, the  *)
(* pollutant names) are sequences of one-character strings, so that        *)
(* str.lower() and the `in` substring test are computed, not assumed.      *)
(* Strings the code only copies (slot values, ids, tokens) are atomic.     *)
(* A literal message text is the sequence of the chunks the f-string       *)
(* concatenates.                                                           *)
(***************************************************************************)
EXTENDS Integers, Sequences, FiniteSets, TLC

VARIABLES inv, pollutant_db

vars == <<inv, pollutant_db>>

---------------------------------------------------------------------------
(* Bounds of the model *)

MaxTextFrags == 2
MaxEntities == 2
MaxUsers == 2
MaxReports == 1
MaxLeaders == 1

---------------------------------------------------------------------------
(* Python values *)

None == "None"

\* Mutant of Falsy: tests `is None` only.
Falsy_none_only(v) == v = None

\* Python truthiness of an optional atomic string (`if not token`).
Falsy(v) == v = None \/ v = ""

Some(v) == [some |-> TRUE, val |-> v]
Nothing == [some |-> FALSE, val |-> <<>>]

EmptyDict == [k \in {} |-> None]

\* dict.get(key, default)
Get(d, k, default) == IF k \in DOMAIN d THEN d[k] ELSE default

\* seq[:n]
Take(seq, n) == SubSeq(seq, 1, IF Len(seq) < n THEN Len(seq) ELSE n)

UpperChars ==
  <<"A","B","C","D","E","F","G","H","I","J","K","L","M",
    "N","O","P","Q","R","S","T","U","V","W","X","Y","Z">>
LowerChars ==
  <<"a","b","c","d","e","f","g","h","i","j","k","l","m",
    "n","o","p","q","r","s","t","u","v","w","x","y","z">>

LowerChar(c) ==
  IF \E i \in 1..Len(UpperChars) : UpperChars[i] = c
  THEN LowerChars[CHOOSE i \in 1..Len(UpperChars) : UpperChars[i] = c]
  ELSE c

\* str.lower()
Lower(s) == [i \in 1..Len(s) |-> LowerChar(s[i])]

\* `word in text` for strings
Contains(text, word) ==
  \E i \in 1..(Len(text) - Len(word) + 1) :
      SubSeq(text, i, i + Len(word) - 1) = word

---------------------------------------------------------------------------
(* Module-level data *)

BACKEND_URL == "https://envirosense-ai-backend.onrender.com"

inappropriate_words ==
  << <<"b","a","d","w","o","r","d","1">>,
     <<"b","a","d","w","o","r","d","2">>,
     <<"i","d","i","o","t">>,
     <<"s","t","u","p","i","d">> >>

\* The descriptions, abbreviated to their first sentence (the code only
\* copies them).
DescCO == "Carbon Monoxide (CO) is a toxic gas produced by incomplete burning of fuels."
DescSO2 == "Sulphur Dioxide (SO2) is a gas from burning fossil fuels like coal and oil."
DescO3 == "Ground-level Ozone (O3) is a major pollutant created when sunlight reacts with emissions."
DescNO2 == "Nitrogen Dioxide (NO2) comes from burning fuel, mainly from vehicles and power plants."
DescPM25 == "PM2.5 are fine inhalable particles that can travel deep into the respiratory tract."
DescPM10 == "PM10 are coarse inhalable particles from sources like dust and construction."

\* The dict literal, in insertion order (which is the iteration order).
POLLUTANT_DB ==
  << [key |-> <<"c","a","r","b","o","n"," ","m","o","n","o","x","i","d","e">>, value |-> DescCO],
     [key |-> <<"c","o">>, value |-> DescCO],
     [key |-> <<"s","u","l","p","h","u","r"," ","d","i","o","x","i","d","e">>, value |-> DescSO2],
     [key |-> <<"s","o","2">>, value |-> DescSO2],
     [key |-> <<"o","z","o","n","e">>, value |-> DescO3],
     [key |-> <<"o","3">>, value |-> DescO3],
     [key |-> <<"n","i","t","r","o","g","e","n"," ","d","i","o","x","i","d","e">>, value |-> DescNO2],
     [key |-> <<"n","o","2">>, value |-> DescNO2],
     [key |-> <<"p","m","2",".","5">>, value |-> DescPM25],
     [key |-> <<"p","m","1","0">>, value |-> DescPM10] >>

\* POLLUTANT_DB.get(key): the description, or None
DbGet(db, k) ==
  IF \E i \in 1..Len(db) : db[i].key = k
  THEN db[CHOOSE i \in 1..Len(db) : db[i].key = k].value
  ELSE None

\* Mutant of KeysIn: stops at the first key found.
RECURSIVE KeysIn_first_only(_, _)
KeysIn_first_only(db, text) ==
  IF db = <<>> THEN <<>>
  ELSE IF Contains(text, Head(db).key) THEN <<Head(db).key>>
  ELSE KeysIn_first_only(Tail(db), text)

\* [p for p in POLLUTANT_DB if p in text]
RECURSIVE KeysIn(_, _)
KeysIn(db, text) ==
  IF db = <<>> THEN <<>>
  ELSE (IF Contains(text, Head(db).key) THEN <<Head(db).key>> ELSE <<>>)
       \o KeysIn(Tail(db), text)

\* Mutant of contains_inappropriate: forgets text.lower().
contains_inappropriate_case_sensitive(text) ==
  \E i \in 1..Len(inappropriate_words) :
      Contains(text, inappropriate_words[i])

\* contains_inappropriate(text)
contains_inappropriate(text) ==
  \E i \in 1..Len(inappropriate_words) :
      Contains(Lower(text), inappropriate_words[i])

---------------------------------------------------------------------------
(* The conversational contexts the dialogue engine can pass in *)

TextFrags ==
  { <<"w","h","a","t"," ","a","b","o","u","t"," ">>,
    <<"p","m","2",".","5">>,
    <<"C","O">>,
    <<"I","d","i","o","t">> }

EntityNames == { <<"C","O">>, <<"R","a","d","o","n">> }

RECURSIVE TextsUpTo(_)
TextsUpTo(n) ==
  IF n = 0 THEN { <<>> }
  ELSE TextsUpTo(n - 1) \cup { t \o f : t \in TextsUpTo(n - 1), f \in TextFrags }

RECURSIVE SeqsUpTo(_, _)
SeqsUpTo(S, n) ==
  IF n = 0 THEN { <<>> }
  ELSE SeqsUpTo(S, n - 1) \cup { Append(q, x) : q \in SeqsUpTo(S, n - 1), x \in S }

Entity(type, value) == [entity |-> type, value |-> value]

TokenDict == [k \in {"token"} |-> "jwt"]

SlotNames == {"symptom", "report_location", "connection_recipient"}

SlotValues(name) ==
  {None, ""} \cup
  (CASE name = "symptom" -> {"cough"}
     [] name = "report_location" -> {"Delhi"}
     [] OTHER -> {"bob"})

LatestMessages ==
  [ text : {Nothing} \cup { Some(t) : t \in TextsUpTo(MaxTextFrags) },
    entities : { [i \in 1..Len(q) |-> Entity("pollutant", q[i])] :
                   q \in SeqsUpTo(EntityNames, MaxEntities) },
    metadata : {Nothing, Some(EmptyDict), Some(TokenDict)} ]

SlotMaps == { f \in [SlotNames -> {None, "", "cough", "Delhi", "bob"}] :
                \A n \in SlotNames : f[n] \in SlotValues(n) }

Trackers == [ latest_message : LatestMessages, slots : SlotMaps ]

NoTracker ==
  [ latest_message |-> [text |-> Nothing, entities |-> <<>>, metadata |-> Nothing],
    slots |-> [n \in SlotNames |-> None] ]

---------------------------------------------------------------------------
(* rasa_sdk: Tracker, CollectingDispatcher, events *)

\* tracker.get_slot(key)
get_slot(tracker, key) == tracker.slots[key]

\* list(tracker.get_latest_entity_values(entity_type))
RECURSIVE get_latest_entity_values(_, _)
get_latest_entity_values(entities, type) ==
  IF entities = <<>> THEN <<>>
  ELSE (IF Head(entities).entity = type THEN <<Head(entities).value>> ELSE <<>>)
       \o get_latest_entity_values(Tail(entities), type)

\* dispatcher.utter_message(response=...)
UtterResponse(id) == [kind |-> "response", body |-> <<id>>]

\* dispatcher.utter_message(text=...)
UtterText(chunks) == [kind |-> "text", body |-> chunks]

SlotSet(key, value) == [event |-> "slot", name |-> key, value |-> value]

UserUtteranceReverted == [event |-> "rewind", name |-> None, value |-> None]

\* sep.join(parts), each part a sequence of chunks
RECURSIVE Join(_, _)
Join(sep, parts) ==
  IF parts = <<>> THEN <<>>
  ELSE IF Len(parts) = 1 THEN parts[1]
  ELSE parts[1] \o <<sep>> \o Join(sep, Tail(parts))

---------------------------------------------------------------------------
(* requests *)

\* What one call of requests.get / requests.post can come back with: the
\* call itself raises (transport failure), or a response arrives.
Response(code, body) == [exc |-> "none", status_code |-> code, body |-> body]

TransportFailure == [exc |-> "ConnectionError", status_code |-> 0, body |-> <<>>]

ErrorCodes == {404, 500}

\* Mutant of RequestException: response.raise_for_status() is not called.
RequestException_transport_only(resp) == resp.exc # "none"

\* requests.get(...) followed by response.raise_for_status(): TRUE iff a
\* RequestException is raised.
RequestException(resp) ==
  \/ resp.exc # "none"
  \/ (resp.status_code >= 400 /\ resp.status_code < 600)

Outcomes(bodies) ==
  {TransportFailure}
  \cup { Response(code, <<>>) : code \in ErrorCodes }
  \cup { Response(200, b) : b \in bodies }

HttpRequest(method, path, headers, json) ==
  [method |-> method, url |-> <<BACKEND_URL>> \o path, headers |-> headers, json |-> json]

\* {"Authorization": f"Bearer {token}"}
Bearer(token) == <<"Authorization", "Bearer ", token>>

---------------------------------------------------------------------------
(* One invocation of Action.run, from the call to the return *)

Idle ==
  [ handler |-> "", tracker |-> NoTracker, pc |-> "idle",
    messages |-> <<>>, events |-> <<>>,
    http |-> <<>>, responses |-> <<>>, fault |-> "none" ]

Called(name, tracker) == [Idle EXCEPT !.handler = name, !.tracker = tracker]

Utter(r, msg) == [r EXCEPT !.messages = Append(@, msg)]

Return(r, events) == [r EXCEPT !.pc = "done", !.events = events]

Raise(r, exception) == [r EXCEPT !.pc = "raised", !.fault = exception]

\* The handler blocks in requests.get / requests.post until the backend answers.
Send(r, pc, req) == [r EXCEPT !.pc = pc, !.http = Append(@, req)]

Receive(r, resp) == [r EXCEPT !.responses = Append(@, resp)]

\* Mutant of get_auth_token: falls back to a default token.
get_auth_token_default(tracker) ==
  LET metadata == tracker.latest_message.metadata IN
  IF metadata.some /\ metadata.val # EmptyDict /\ "token" \in DOMAIN metadata.val
  THEN metadata.val["token"]
  ELSE "anonymous"

\* get_auth_token(tracker)
get_auth_token(tracker) ==
  LET metadata == tracker.latest_message.metadata IN
  IF metadata.some /\ metadata.val # EmptyDict /\ "token" \in DOMAIN metadata.val
  THEN metadata.val["token"]
  ELSE None

\* user_message and contains_inappropriate(user_message)
Moderated(tracker) ==
  LET user_message == tracker.latest_message.text IN
  /\ user_message.some
  /\ user_message.val # <<>>
  /\ contains_inappropriate(user_message.val)

ModerationWarning(r) ==
  Return(Utter(r, UtterResponse("utter_moderation_warning")), <<UserUtteranceReverted>>)

NeedLogin(r, events) ==
  Return(Utter(r, UtterResponse("utter_need_login")), events)

---------------------------------------------------------------------------
(* What the backend can answer on each endpoint (section 6 of the design:  *)
(* the JSON shapes, with or without their optional keys)                   *)

Dict1(k, v) == [x \in {k} |-> v]

ProfileBodies == { Dict1("ecoPoints", 42), EmptyDict }

ReportItems ==
  { [x \in {"id", "location"} |->
        IF x = "id" THEN "r1" ELSE Dict1("name", "Delhi")],
    EmptyDict }

ReportBodies == SeqsUpTo(ReportItems, MaxReports)

MissionBodies == { Dict1("description", "Plant a tree"), EmptyDict }

LeaderItems ==
  { [x \in {"username", "ecoPoints"} |-> IF x = "username" THEN "ann" ELSE 10],
    EmptyDict }

LeaderboardBodies == SeqsUpTo(LeaderItems, MaxLeaders)

CreatedBodies == { Dict1("id", "r7"), EmptyDict }

UserItems == { Dict1("id", "u1"), Dict1("id", "u2"), EmptyDict }

SearchBodies == SeqsUpTo(UserItems, MaxUsers)

---------------------------------------------------------------------------
(* The handlers *)

ActionGeneralKnowledgeFallback_run(r) ==
  Return(Utter(r, UtterResponse("utter_out_of_scope")), <<UserUtteranceReverted>>)

\* One iteration of the loop over `pollutants`
Describe(db, p) ==
  LET description == DbGet(db, Lower(p)) IN
  IF ~Falsy(description)
  THEN <<description>>
  ELSE <<"I don't have specific information on '">> \o p \o <<"'.">>

Responses(db, pollutants) == [i \in 1..Len(pollutants) |-> Describe(db, pollutants[i])]

Explain(r, db, pollutants) ==
  Return(Utter(r, UtterText(Join("\n\n", Responses(db, pollutants)))), <<>>)

\* Mutant of ActionExplainPollutant_run: scans the text before it looks at the
\* entities.
ActionExplainPollutant_run_text_first(r, db) ==
  LET user_message == r.tracker.latest_message.text
      pollutants == get_latest_entity_values(r.tracker.latest_message.entities, "pollutant")
      found_keywords == IF user_message.some THEN KeysIn(db, Lower(user_message.val)) ELSE <<>>
  IN
  IF Moderated(r.tracker) THEN ModerationWarning(r)
  ELSE IF found_keywords # <<>> THEN Explain(r, db, found_keywords)
  ELSE IF pollutants # <<>> THEN Explain(r, db, pollutants)
  ELSE IF ~user_message.some THEN Raise(r, "AttributeError")
  ELSE Return(Utter(r, UtterText(
         <<"Which pollutant are you asking about? I know about CO, SO2, Ozone, PM2.5, PM10, etc.">>)),
         <<>>)

ActionExplainPollutant_run(r, db) ==
  LET user_message == r.tracker.latest_message.text
      pollutants == get_latest_entity_values(r.tracker.latest_message.entities, "pollutant")
  IN
  IF Moderated(r.tracker) THEN ModerationWarning(r)
  ELSE IF pollutants # <<>> THEN Explain(r, db, pollutants)
  ELSE IF ~user_message.some THEN Raise(r, "AttributeError")
  ELSE LET found_keywords == KeysIn(db, Lower(user_message.val)) IN
       IF found_keywords # <<>> THEN Explain(r, db, found_keywords)
       ELSE Return(Utter(r, UtterText(
              <<"Which pollutant are you asking about? I know about CO, SO2, Ozone, PM2.5, PM10, etc.">>)),
              <<>>)

\* The part shared by the three authenticated reads: moderation, then
\* authentication, then the GET.
AuthedGet(r, path) ==
  LET token == get_auth_token(r.tracker) IN
  IF Moderated(r.tracker) THEN ModerationWarning(r)
  ELSE IF Falsy(token) THEN NeedLogin(r, <<>>)
  ELSE Send(r, "await", HttpRequest("GET", <<path>>, Bearer(token), <<>>))

ActionGetEcoPoints_run(r) == AuthedGet(r, "/users/profile")

ActionGetEcoPoints_response(r, resp) ==
  IF RequestException(resp)
  THEN Return(Utter(Receive(r, resp),
         UtterText(<<"Sorry, I couldn't fetch your Eco-Points right now.">>)), <<>>)
  ELSE LET points == Get(resp.body, "ecoPoints", 0) IN
       Return(Utter(Receive(r, resp),
         UtterText(<<"You currently have ", ToString(points), " Eco-Points!">>)), <<>>)

ActionGetMyReports_run(r) == AuthedGet(r, "/reports/mine")

ReportLine(item) ==
  <<"- Report ID: ", Get(item, "id", "N/A"),
    ", Location: ", Get(Get(item, "location", EmptyDict), "name", "N/A")>>

ActionGetMyReports_response(r, resp) ==
  IF RequestException(resp)
  THEN Return(Utter(Receive(r, resp),
         UtterText(<<"Sorry, I couldn't fetch your reports right now.">>)), <<>>)
  ELSE LET reports == resp.body IN
       IF reports # <<>>
       THEN LET shown == Take(reports, 5)
                report_list == Join("\n", [i \in 1..Len(shown) |-> ReportLine(shown[i])])
            IN Return(Utter(Receive(r, resp),
                 UtterText(<<"Here are your recent reports:\n">> \o report_list)), <<>>)
       ELSE Return(Utter(Receive(r, resp),
              UtterText(<<"You haven't submitted any reports recently.">>)), <<>>)

ActionGetDailyMission_run(r) == AuthedGet(r, "/missions/today")

ActionGetDailyMission_response(r, resp) ==
  IF RequestException(resp)
  THEN Return(Utter(Receive(r, resp),
         UtterText(<<"Sorry, I couldn't fetch your daily mission right now.">>)), <<>>)
  ELSE LET mission_desc == Get(resp.body, "description", "No mission assigned today.") IN
       Return(Utter(Receive(r, resp),
         UtterText(<<"Today's mission: ", mission_desc>>)), <<>>)

ActionGetLeaderboardTop_run(r) ==
  IF Moderated(r.tracker) THEN ModerationWarning(r)
  ELSE Send(r, "await", HttpRequest("GET", <<"/users/leaderboard">>, <<>>, <<>>))

LeaderLine(i, u) ==
  <<"- ", ToString(i), ". ", Get(u, "username", "N/A"),
    " (", ToString(Get(u, "ecoPoints", 0)), " points)">>

ActionGetLeaderboardTop_response(r, resp) ==
  IF RequestException(resp)
  THEN Return(Utter(Receive(r, resp),
         UtterText(<<"Sorry, I couldn't fetch the leaderboard right now.">>)), <<>>)
  ELSE LET leaderboard == resp.body IN
       IF leaderboard # <<>>
       THEN LET shown == Take(leaderboard, 3)
                top_users == Join("\n", [i \in 1..Len(shown) |-> LeaderLine(i, shown[i])])
            IN Return(Utter(Receive(r, resp),
                 UtterText(<<"Here are the current top contributors:\n">> \o top_users)), <<>>)
       ELSE Return(Utter(Receive(r, resp),
              UtterText(<<"The leaderboard is currently empty.">>)), <<>>)

\* Line 265 builds the payload with datetime.datetime.now(), and the module
\* never imports datetime: the statement raises NameError, outside the try,
\* so the POST of lines 266-276 is never reached.
ActionReportSymptom_run(r) ==
  LET token == get_auth_token(r.tracker)
      symptom == get_slot(r.tracker, "symptom")
  IN
  IF Falsy(token) THEN NeedLogin(r, <<SlotSet("symptom", None)>>)
  ELSE IF Falsy(symptom)
  THEN Return(Utter(r, UtterText(
         <<"I seem to have missed the symptom. Could you please try reporting it again?">>)), <<>>)
  ELSE Raise(r, "NameError")

ActionCreateHealthReport_run(r) ==
  LET token == get_auth_token(r.tracker)
      location == get_slot(r.tracker, "report_location")
  IN
  IF Falsy(token) THEN NeedLogin(r, <<SlotSet("report_location", None)>>)
  ELSE IF Falsy(location)
  THEN Return(Utter(r, UtterText(
         <<"I seem to have missed the location. Could you please try creating the report again?">>)), <<>>)
  ELSE Send(r, "await", HttpRequest("POST", <<"/reports">>, Bearer(token),
              << <<"location", location>>, <<"details", "Report created via chatbot">> >>))

ActionCreateHealthReport_response(r, resp) ==
  LET location == get_slot(r.tracker, "report_location") IN
  IF RequestException(resp)
  THEN Return(Utter(Receive(r, resp),
         UtterText(<<"Sorry, I couldn't create the health report for ", location, " right now.">>)),
         <<SlotSet("report_location", None)>>)
  ELSE LET report_id == Get(resp.body, "id", "N/A") IN
       Return(Utter(Receive(r, resp),
         UtterText(<<"Okay, I've created a new health report (ID: ", report_id, ") for ", location,
                     ". You can add more details on the website.">>)),
         <<SlotSet("report_location", None)>>)

ActionSendConnectionRequest_run(r) ==
  LET token == get_auth_token(r.tracker)
      recipient_username == get_slot(r.tracker, "connection_recipient")
  IN
  IF Falsy(token) THEN NeedLogin(r, <<SlotSet("connection_recipient", None)>>)
  ELSE IF Falsy(recipient_username)
  THEN Return(Utter(r, UtterText(
         <<"I seem to have missed the username. Who did you want to connect with?">>)), <<>>)
  ELSE Send(r, "search", HttpRequest("GET", <<"/users/search?username=", recipient_username>>,
              Bearer(token), <<>>))

\* Mutant of ConnectionApology: returns from the except clause without the
\* slot reset.
ConnectionApology_keeps_slot(r) ==
  LET recipient_username == get_slot(r.tracker, "connection_recipient") IN
  Return(Utter(r, UtterText(
      <<"Sorry, I couldn't send the connection request to ", recipient_username, " right now.">>)),
    <<>>)

\* The except clause and the final return (lines 360-366)
ConnectionApology(r) ==
  LET recipient_username == get_slot(r.tracker, "connection_recipient") IN
  Return(Utter(r, UtterText(
      <<"Sorry, I couldn't send the connection request to ", recipient_username, " right now.">>)),
    <<SlotSet("connection_recipient", None)>>)

\* Mutant of FirstId: takes the last match.
FirstId_last(users) == Get(users[Len(users)], "id", None)

\* users[0].get("id")
FirstId(users) == Get(users[1], "id", None)

\* Step 1 has answered (lines 340-354)
ActionSendConnectionRequest_search_response(r, resp) ==
  LET token == get_auth_token(r.tracker)
      recipient_username == get_slot(r.tracker, "connection_recipient")
      users == resp.body
  IN
  IF RequestException(resp) THEN ConnectionApology(Receive(r, resp))
  ELSE IF users = <<>>
  THEN Return(Utter(Receive(r, resp), UtterText(
         <<"Sorry, I couldn't find a user named '", recipient_username,
           "'. Please check the username.">>)),
         <<SlotSet("connection_recipient", None)>>)
  ELSE IF Falsy(FirstId(users))
  THEN Return(Utter(Receive(r, resp), UtterText(
         <<"Found the user, but couldn't get their ID.">>)),
         <<SlotSet("connection_recipient", None)>>)
  ELSE Send(Receive(r, resp), "post",
         HttpRequest("POST", <<"/connections/request/", FirstId(users)>>, Bearer(token), <<>>))

\* Step 2 has answered (lines 355-366)
ActionSendConnectionRequest_post_response(r, resp) ==
  LET recipient_username == get_slot(r.tracker, "connection_recipient") IN
  IF RequestException(resp) THEN ConnectionApology(Receive(r, resp))
  ELSE Return(Utter(Receive(r, resp), UtterText(
         <<"Okay, I've sent a connection request to ", recipient_username, ".">>)),
         <<SlotSet("connection_recipient", None)>>)

ActionHealthEffects_run(r) ==
  LET token == get_auth_token(r.tracker) IN
  IF Moderated(r.tracker) THEN ModerationWarning(r)
  ELSE IF ~Falsy(token)
  THEN Return(Utter(r, UtterResponse("utter_health_effects")), <<>>)
  ELSE Return(Utter(r, UtterResponse("utter_health_effects")), <<>>)

---------------------------------------------------------------------------
(* The state machine: the dialogue engine invokes one handler per turn of  *)
(* a session; a handler that calls the backend blocks until the answer.    *)

Sessions == {"s1"}

Init ==
  /\ inv = [s \in Sessions |-> Idle]
  /\ pollutant_db = POLLUTANT_DB

\* Two sessions served by the same process at once.
ConcSessions == {"s1", "s2"}

\* The contexts of the two-session runs: a logged-in user with every slot
\* filled, an anonymous user whose entities were extracted, and a logged-in
\* turn without text whose slots are empty.
ConcTrackers ==
  { [ latest_message |->
        [ text |-> Some(<<"p","m","2",".","5","C","O">>), entities |-> <<>>,
          metadata |-> Some(TokenDict) ],
      slots |-> [n \in SlotNames |->
                   CASE n = "symptom" -> "cough"
                     [] n = "report_location" -> "Delhi"
                     [] OTHER -> "bob"] ],
    [ latest_message |->
        [ text |-> Some(<<"I","d","i","o","t">>),
          entities |-> <<Entity("pollutant", <<"R","a","d","o","n">>)>>,
          metadata |-> Nothing ],
      slots |-> [n \in SlotNames |-> None] ],
    [ latest_message |->
        [ text |-> Nothing, entities |-> <<>>, metadata |-> Some(TokenDict) ],
      slots |-> [n \in SlotNames |-> ""] ] }

InitConc ==
  /\ inv = [s \in ConcSessions |-> Idle]
  /\ pollutant_db = POLLUTANT_DB

\* The contexts a turn can carry: every one of Trackers when a single session
\* is served, those of ConcTrackers when two are.
Contexts == IF DOMAIN inv = Sessions THEN Trackers ELSE ConcTrackers

\* Mutant of Becomes: the messages are collected in one list that the
\* invocations of all sessions share.
Becomes_shared_messages(s, r) ==
  /\ inv' = [t \in DOMAIN inv |->
               IF t = s THEN r
               ELSE IF inv[t].pc = "idle" THEN inv[t]
               ELSE [inv[t] EXCEPT !.messages = r.messages]]
  /\ UNCHANGED pollutant_db

Becomes(s, r) ==
  /\ inv' = [inv EXCEPT ![s] = r]
  /\ UNCHANGED pollutant_db

Awaiting(s, name, pc) == inv[s].handler = name /\ inv[s].pc = pc

GeneralKnowledgeFallback(s) ==
  /\ inv[s].pc = "idle"
  /\ \E tracker \in Contexts :
       Becomes(s, ActionGeneralKnowledgeFallback_run(
                    Called("action_general_knowledge_fallback", tracker)))

ExplainPollutant(s) ==
  /\ inv[s].pc = "idle"
  /\ \E tracker \in Contexts :
       Becomes(s, ActionExplainPollutant_run(
                    Called("action_explain_pollutant", tracker), pollutant_db))

GetEcoPoints(s) ==
  /\ inv[s].pc = "idle"
  /\ \E tracker \in Contexts :
       Becomes(s, ActionGetEcoPoints_run(Called("action_get_eco_points", tracker)))

GetEcoPointsResponse(s) ==
  /\ Awaiting(s, "action_get_eco_points", "await")
  /\ \E resp \in Outcomes(ProfileBodies) :
       Becomes(s, ActionGetEcoPoints_response(inv[s], resp))

GetMyReports(s) ==
  /\ inv[s].pc = "idle"
  /\ \E tracker \in Contexts :
       Becomes(s, ActionGetMyReports_run(Called("action_get_my_reports", tracker)))

GetMyReportsResponse(s) ==
  /\ Awaiting(s, "action_get_my_reports", "await")
  /\ \E resp \in Outcomes(ReportBodies) :
       Becomes(s, ActionGetMyReports_response(inv[s], resp))

GetDailyMission(s) ==
  /\ inv[s].pc = "idle"
  /\ \E tracker \in Contexts :
       Becomes(s, ActionGetDailyMission_run(Called("action_get_daily_mission", tracker)))

GetDailyMissionResponse(s) ==
  /\ Awaiting(s, "action_get_daily_mission", "await")
  /\ \E resp \in Outcomes(MissionBodies) :
       Becomes(s, ActionGetDailyMission_response(inv[s], resp))

GetLeaderboardTop(s) ==
  /\ inv[s].pc = "idle"
  /\ \E tracker \in Contexts :
       Becomes(s, ActionGetLeaderboardTop_run(Called("action_get_leaderboard_top", tracker)))

GetLeaderboardTopResponse(s) ==
  /\ Awaiting(s, "action_get_leaderboard_top", "await")
  /\ \E resp \in Outcomes(LeaderboardBodies) :
       Becomes(s, ActionGetLeaderboardTop_response(inv[s], resp))

ReportSymptom(s) ==
  /\ inv[s].pc = "idle"
  /\ \E tracker \in Contexts :
       Becomes(s, ActionReportSymptom_run(Called("action_report_symptom", tracker)))

CreateHealthReport(s) ==
  /\ inv[s].pc = "idle"
  /\ \E tracker \in Contexts :
       Becomes(s, ActionCreateHealthReport_run(Called("action_create_health_report", tracker)))

CreateHealthReportResponse(s) ==
  /\ Awaiting(s, "action_create_health_report", "await")
  /\ \E resp \in Outcomes(CreatedBodies) :
       Becomes(s, ActionCreateHealthReport_response(inv[s], resp))

SendConnectionRequest(s) ==
  /\ inv[s].pc = "idle"
  /\ \E tracker \in Contexts :
       Becomes(s, ActionSendConnectionRequest_run(
                    Called("action_send_connection_request", tracker)))

SendConnectionRequestSearchResponse(s) ==
  /\ Awaiting(s, "action_send_connection_request", "search")
  /\ \E resp \in Outcomes(SearchBodies) :
       Becomes(s, ActionSendConnectionRequest_search_response(inv[s], resp))

SendConnectionRequestPostResponse(s) ==
  /\ Awaiting(s, "action_send_connection_request", "post")
  /\ \E resp \in Outcomes({<<>>}) :
       Becomes(s, ActionSendConnectionRequest_post_response(inv[s], resp))

HealthEffects(s) ==
  /\ inv[s].pc = "idle"
  /\ \E tracker \in Contexts :
       Becomes(s, ActionHealthEffects_run(Called("action_health_effects", tracker)))

Next ==
  \E s \in DOMAIN inv :
    \/ GeneralKnowledgeFallback(s)
    \/ ExplainPollutant(s)
    \/ GetEcoPoints(s)
    \/ GetEcoPointsResponse(s)
    \/ GetMyReports(s)
    \/ GetMyReportsResponse(s)
    \/ GetDailyMission(s)
    \/ GetDailyMissionResponse(s)
    \/ GetLeaderboardTop(s)
    \/ GetLeaderboardTopResponse(s)
    \/ ReportSymptom(s)
    \/ CreateHealthReport(s)
    \/ CreateHealthReportResponse(s)
    \/ SendConnectionRequest(s)
    \/ SendConnectionRequestSearchResponse(s)
    \/ SendConnectionRequestPostResponse(s)
    \/ HealthEffects(s)

Spec == Init /\ [][Next]_vars

SpecConc == InitConc /\ [][Next]_vars

---------------------------------------------------------------------------
(* Vocabulary of the properties.  The preconditions are stated on the      *)
(* context itself, not through the handlers' own helpers.                  *)

Running == { s \in DOMAIN inv : inv[s].pc # "idle" }

AuthHandlers ==
  {"action_get_eco_points", "action_get_my_reports", "action_get_daily_mission",
   "action_report_symptom", "action_create_health_report",
   "action_send_connection_request"}

CreationHandlers ==
  {"action_report_symptom", "action_create_health_report",
   "action_send_connection_request"}

ReadHandlers ==
  {"action_get_eco_points", "action_get_my_reports", "action_get_daily_mission",
   "action_get_leaderboard_top"}

ModeratedHandlers ==
  {"action_explain_pollutant", "action_get_eco_points", "action_get_my_reports",
   "action_get_daily_mission", "action_get_leaderboard_top", "action_health_effects"}

\* The context carries a token.
HasToken(s) ==
  LET m == inv[s].tracker.latest_message.metadata IN
  m.some /\ "token" \in DOMAIN m.val

\* A disallowed word occurs in the latest text, whatever the case of its letters.
StandsAt(text, i, word) ==
  /\ i + Len(word) - 1 <= Len(text)
  /\ \A j \in 1..Len(word) : LowerChar(text[i + j - 1]) = word[j]

OccursIgnoringCase(text, word) == \E i \in 1..Len(text) : StandsAt(text, i, word)

HasBadWord(s) ==
  LET t == inv[s].tracker.latest_message.text IN
  /\ t.some
  /\ \E k \in 1..Len(inappropriate_words) : OccursIgnoringCase(t.val, inappropriate_words[k])

SlotOf(s, name) == inv[s].tracker.slots[name]

SlotEmpty(s, name) == SlotOf(s, name) \in {None, ""}

ExpectedSlot(handler) ==
  CASE handler = "action_report_symptom" -> "symptom"
    [] handler = "action_create_health_report" -> "report_location"
    [] OTHER -> "connection_recipient"

Template(id) == [kind |-> "response", body |-> <<id>>]

Literal(chunks) == [kind |-> "text", body |-> chunks]

ClearSlot(name) == [event |-> "slot", name |-> name, value |-> None]

Rewind == [event |-> "rewind", name |-> None, value |-> None]

\* The backend call failed: the transport raised, or the status is not 2xx.
Failed(resp) == resp.exc # "none" \/ resp.status_code < 200 \/ resp.status_code > 299

---------------------------------------------------------------------------
(* C1 *)

\* C1: every handler returns a well-formed result (a list of messages and a
\* list of events) and raises no fault, whatever the context and whatever the
\* backend answers.
C1_NoFault ==
  \A s \in Running :
     /\ inv[s].pc # "raised"
     /\ inv[s].fault = "none"
     /\ (inv[s].pc = "done" =>
           /\ \A i \in 1..Len(inv[s].messages) : inv[s].messages[i].kind \in {"response", "text"}
           /\ \A i \in 1..Len(inv[s].events) : inv[s].events[i].event \in {"slot", "rewind"})

---------------------------------------------------------------------------
(* C2 *)

\* C2: a handler that requires auth, invoked without a token, emits exactly
\* the utter_need_login template and makes no HTTP call, whatever the latest
\* text, the entities and the slots are.
C2_NeedLoginWhateverText ==
  \A s \in Running :
     (inv[s].handler \in AuthHandlers /\ ~HasToken(s)) =>
        /\ inv[s].messages = <<Template("utter_need_login")>>
        /\ inv[s].http = <<>>

\* C2 as amended: the same, for a latest text that moderation does not flag
\* where the handler is one of the three reads, which check moderation before
\* the token; the three creation flows answer utter_need_login whatever the
\* text.
C2_NeedLogin ==
  \A s \in Running :
     (/\ inv[s].handler \in AuthHandlers
      /\ ~HasToken(s)
      /\ (inv[s].handler \in CreationHandlers \/ ~HasBadWord(s))) =>
        /\ inv[s].pc = "done"
        /\ inv[s].messages = <<Template("utter_need_login")>>
        /\ inv[s].http = <<>>

C2_Witness ==
  \E s \in Running :
     /\ inv[s].handler = "action_get_my_reports"
     /\ ~HasToken(s)
     /\ inv[s].tracker.latest_message.metadata.some
     /\ inv[s].tracker.latest_message.text.some
     /\ Len(inv[s].tracker.latest_message.text.val) > 0
     /\ inv[s].messages = <<Template("utter_need_login")>>

---------------------------------------------------------------------------
(* C3 *)

\* C3: every handler other than the three creation flows answers a latest text
\* that contains a disallowed word (in any case) with exactly the
\* utter_moderation_warning template and one RevertLastUserUtterance event,
\* and calls no backend.
C3_ModerationEverywhere ==
  \A s \in Running :
     (inv[s].handler \notin CreationHandlers /\ HasBadWord(s)) =>
        /\ inv[s].pc = "done"
        /\ inv[s].messages = <<Template("utter_moderation_warning")>>
        /\ inv[s].events = <<Rewind>>
        /\ inv[s].http = <<>>

\* C3 as amended: the same for ExplainPollutant, GetEcoPoints, GetMyReports,
\* GetDailyMission, GetLeaderboardTop and HealthEffects; GeneralKnowledgeFallback
\* checks no moderation and answers the flagged text as any other, with the
\* utter_out_of_scope template, one RevertLastUserUtterance event and no
\* backend call.
C3_Moderation ==
  \A s \in Running :
     HasBadWord(s) =>
        /\ inv[s].handler \in ModeratedHandlers =>
             /\ inv[s].pc = "done"
             /\ inv[s].messages = <<Template("utter_moderation_warning")>>
             /\ inv[s].events = <<Rewind>>
             /\ inv[s].http = <<>>
        /\ inv[s].handler = "action_general_knowledge_fallback" =>
             /\ inv[s].pc = "done"
             /\ inv[s].messages = <<Template("utter_out_of_scope")>>
             /\ inv[s].events = <<Rewind>>
             /\ inv[s].http = <<>>

C3_Witness ==
  \E s \in Running :
     /\ inv[s].handler = "action_get_leaderboard_top"
     /\ HasBadWord(s)
     /\ HasToken(s)
     /\ inv[s].messages = <<Template("utter_moderation_warning")>>
     /\ inv[s].events = <<Rewind>>

---------------------------------------------------------------------------
(* C4 *)

\* C4: ReportSymptom with a token and a non-empty symptom slot always returns
\* an event that clears the symptom slot, whatever the backend does.
C4_SymptomCleared ==
  \A s \in Running :
     (/\ inv[s].handler = "action_report_symptom"
      /\ HasToken(s)
      /\ ~SlotEmpty(s, "symptom")) =>
        /\ inv[s].pc = "done"
        /\ \E i \in 1..Len(inv[s].events) : inv[s].events[i] = ClearSlot("symptom")

---------------------------------------------------------------------------
(* C5 *)

Apology(handler) ==
  CASE handler = "action_get_eco_points" ->
         Literal(<<"Sorry, I couldn't fetch your Eco-Points right now.">>)
    [] handler = "action_get_my_reports" ->
         Literal(<<"Sorry, I couldn't fetch your reports right now.">>)
    [] handler = "action_get_daily_mission" ->
         Literal(<<"Sorry, I couldn't fetch your daily mission right now.">>)
    [] OTHER ->
         Literal(<<"Sorry, I couldn't fetch the leaderboard right now.">>)

---------------------------------------------------------------------------
(* C6 *)

SearchUrl(s) ==
  <<BACKEND_URL, "/users/search?username=", SlotOf(s, "connection_recipient")>>

\* The search answered with at least one match whose first entry has an id.
Matched(resp) ==
  /\ ~Failed(resp)
  /\ Len(resp.body) >= 1
  /\ "id" \in DOMAIN resp.body[1]
  /\ resp.body[1]["id"] \notin {None, ""}

\* C6: in SendConnectionRequest a POST is issued only as the second request,
\* after the search GET has been answered successfully with a non-empty list,
\* and it goes to /connections/request/{id of the first match}; when the
\* search fails, finds nobody, or finds a first match without id, no POST is
\* issued; there is at most one search and one POST.
C6_PostOnlyAfterMatch ==
  \A s \in Running :
     inv[s].handler = "action_send_connection_request" =>
        LET http == inv[s].http
            responses == inv[s].responses
        IN
        /\ Len(http) <= 2
        /\ Len(http) >= 1 => (http[1].method = "GET" /\ http[1].url = SearchUrl(s))
        /\ \A i \in 1..Len(http) :
              http[i].method = "POST" =>
                 /\ i = 2
                 /\ Len(responses) >= 1
                 /\ Matched(responses[1])
                 /\ http[i].url =
                      <<BACKEND_URL, "/connections/request/", responses[1].body[1]["id"]>>
        /\ (Len(responses) >= 1 /\ ~Matched(responses[1])) => Len(http) = 1

C6_Witness ==
  \E s \in Running :
     /\ inv[s].handler = "action_send_connection_request"
     /\ Len(inv[s].http) = 2
     /\ inv[s].http[2].method = "POST"
     /\ Len(inv[s].responses[1].body) = 2
     /\ inv[s].responses[1].body[1]["id"] = "u2"
     /\ "id" \in DOMAIN inv[s].responses[1].body[2]
     /\ inv[s].responses[1].body[2]["id"] = "u1"

---------------------------------------------------------------------------
(* C7 *)

\* C7: SendConnectionRequest with a token and a non-empty connection_recipient
\* slot returns, in every outcome, exactly one literal message and exactly one
\* event, which clears connection_recipient: "not found" when the search
\* returns an empty list, a confirmation naming the username when search and
\* POST both succeed, an apology naming the username when the search or the
\* POST fails.
C7_ConnectionOutcomes ==
  \A s \in Running :
     (/\ inv[s].handler = "action_send_connection_request"
      /\ HasToken(s)
      /\ ~SlotEmpty(s, "connection_recipient")) =>
        LET name == SlotOf(s, "connection_recipient")
            responses == inv[s].responses
            n == Len(responses)
            finished ==
              \/ (n >= 1 /\ ~Matched(responses[1]))
              \/ n = 2
        IN
        /\ inv[s].pc # "raised"
        /\ finished <=> inv[s].pc = "done"
        /\ inv[s].pc = "done" =>
             /\ Len(inv[s].messages) = 1
             /\ inv[s].messages[1].kind = "text"
             /\ inv[s].events = <<ClearSlot("connection_recipient")>>
             /\ (~Failed(responses[1]) /\ responses[1].body = <<>>) =>
                  inv[s].messages[1].body =
                    <<"Sorry, I couldn't find a user named '", name,
                      "'. Please check the username.">>
             /\ (n = 2 /\ ~Failed(responses[2])) =>
                  inv[s].messages[1].body =
                    <<"Okay, I've sent a connection request to ", name, ".">>
             /\ Failed(responses[n]) =>
                  inv[s].messages[1].body =
                    <<"Sorry, I couldn't send the connection request to ", name, " right now.">>

C7_Witness ==
  \E s \in Running :
     /\ inv[s].handler = "action_send_connection_request"
     /\ inv[s].pc = "done"
     /\ Len(inv[s].responses) = 2
     /\ inv[s].responses[1].body = <<Dict1("id", "u1")>>
     /\ Failed(inv[s].responses[2])
     /\ inv[s].events = <<ClearSlot("connection_recipient")>>
     /\ inv[s].messages =
          <<Literal(<<"Sorry, I couldn't send the connection request to ", "bob", " right now.">>)>>

---------------------------------------------------------------------------
(* C8 *)

EntityValues(s) ==
  LET e == inv[s].tracker.latest_message.entities IN
  [i \in 1..Len(e) |-> e[i].value]

Aliases == { POLLUTANT_DB[i].key : i \in 1..Len(POLLUTANT_DB) }

DescriptionOf(alias) ==
  (CHOOSE e \in { POLLUTANT_DB[i] : i \in 1..Len(POLLUTANT_DB) } : e.key = alias).value

\* What is said about one name: the description of its lower-cased form, or
\* the "no specific information" sentence naming it as it was given.
Said(name) ==
  LET lowered == [i \in 1..Len(name) |-> LowerChar(name[i])] IN
  IF lowered \in Aliases
  THEN <<DescriptionOf(lowered)>>
  ELSE <<"I don't have specific information on '">> \o name \o <<"'.">>

RECURSIVE BlankLineJoin(_)
BlankLineJoin(names) ==
  IF Len(names) = 1 THEN Said(names[1])
  ELSE Said(names[1]) \o <<"\n\n">> \o BlankLineJoin(Tail(names))

\* C8: ExplainPollutant with a text that is not flagged and a non-empty list of
\* pollutant entities answers from the entities alone: one literal message, the
\* blank-line join, in entity order, of each entity's description (by its
\* lower-cased name) or of the "no specific information" sentence naming it;
\* no event and no HTTP call.
C8_EntitiesAuthoritative ==
  \A s \in Running :
     (/\ inv[s].handler = "action_explain_pollutant"
      /\ ~HasBadWord(s)
      /\ EntityValues(s) # <<>>) =>
        /\ inv[s].pc = "done"
        /\ inv[s].messages = <<Literal(BlankLineJoin(EntityValues(s)))>>
        /\ inv[s].events = <<>>
        /\ inv[s].http = <<>>

C8_Witness ==
  \E s \in Running :
     /\ inv[s].handler = "action_explain_pollutant"
     /\ inv[s].tracker.latest_message.text = Some(<<"p","m","2",".","5">>)
     /\ EntityValues(s) = << <<"R","a","d","o","n">>, <<"C","O">> >>
     /\ inv[s].messages =
          <<Literal(<<"I don't have specific information on '", "R","a","d","o","n", "'.",
                      "\n\n", DescCO>>)>>

---------------------------------------------------------------------------
(* C9 *)

AliasesIn(text) == { a \in Aliases : OccursIgnoringCase(text, a) }

FirstAt(text, a) ==
  CHOOSE i \in 1..Len(text) :
     StandsAt(text, i, a) /\ \A j \in 1..(i - 1) : ~StandsAt(text, j, a)

\* The aliases of `found`, ordered by where each first appears in the text.
RECURSIVE ByAppearance(_, _)
ByAppearance(text, found) ==
  IF found = {} THEN <<>>
  ELSE LET first == CHOOSE a \in found :
                      \A b \in found : FirstAt(text, a) <= FirstAt(text, b)
       IN <<first>> \o ByAppearance(text, found \ {first})

\* The aliases of `found`, ordered as the knowledge table lists them.
RECURSIVE ByTable(_, _)
ByTable(i, found) ==
  IF i > Len(POLLUTANT_DB) THEN <<>>
  ELSE (IF POLLUTANT_DB[i].key \in found THEN <<POLLUTANT_DB[i].key>> ELSE <<>>)
       \o ByTable(i + 1, found)

ClarificationPrompt ==
  Literal(<<"Which pollutant are you asking about? I know about CO, SO2, Ozone, PM2.5, PM10, etc.">>)

TextOf(s) == inv[s].tracker.latest_message.text

---------------------------------------------------------------------------
(* C10 *)

PleaseRetry(handler) ==
  CASE handler = "action_report_symptom" ->
         Literal(<<"I seem to have missed the symptom. Could you please try reporting it again?">>)
    [] handler = "action_create_health_report" ->
         Literal(<<"I seem to have missed the location. Could you please try creating the report again?">>)
    [] OTHER ->
         Literal(<<"I seem to have missed the username. Who did you want to connect with?">>)

\* C10: ReportSymptom, CreateHealthReport and SendConnectionRequest, invoked
\* with a token but with their slot (symptom, report_location,
\* connection_recipient) empty or unset, emit exactly one literal "please
\* retry" message, return no event (the slot is not cleared) and call no
\* backend.
C10_MissingSlot ==
  \A s \in Running :
     (/\ inv[s].handler \in CreationHandlers
      /\ HasToken(s)
      /\ SlotEmpty(s, ExpectedSlot(inv[s].handler))) =>
        /\ inv[s].pc = "done"
        /\ inv[s].messages = <<PleaseRetry(inv[s].handler)>>
        /\ inv[s].events = <<>>
        /\ inv[s].http = <<>>

C10_Witness ==
  \E s \in Running :
     /\ inv[s].handler = "action_create_health_report"
     /\ HasToken(s)
     /\ SlotOf(s, "report_location") = ""
     /\ SlotOf(s, "symptom") = "cough"
     /\ inv[s].pc = "done"
     /\ inv[s].messages = <<PleaseRetry("action_create_health_report")>>
     /\ inv[s].events = <<>>

---------------------------------------------------------------------------
(* C11 *)

\* The handler run alone: from its call up to its first backend request.
AloneCalled(handler, tracker) ==
  LET r == Called(handler, tracker) IN
  CASE handler = "action_general_knowledge_fallback" -> ActionGeneralKnowledgeFallback_run(r)
    [] handler = "action_explain_pollutant" -> ActionExplainPollutant_run(r, POLLUTANT_DB)
    [] handler = "action_get_eco_points" -> ActionGetEcoPoints_run(r)
    [] handler = "action_get_my_reports" -> ActionGetMyReports_run(r)
    [] handler = "action_get_daily_mission" -> ActionGetDailyMission_run(r)
    [] handler = "action_get_leaderboard_top" -> ActionGetLeaderboardTop_run(r)
    [] handler = "action_report_symptom" -> ActionReportSymptom_run(r)
    [] handler = "action_create_health_report" -> ActionCreateHealthReport_run(r)
    [] handler = "action_send_connection_request" -> ActionSendConnectionRequest_run(r)
    [] OTHER -> ActionHealthEffects_run(r)

\* The handler run alone: from one backend answer to the next request or
\* to the return.
AloneAnswered(r, resp) ==
  CASE r.handler = "action_get_eco_points" -> ActionGetEcoPoints_response(r, resp)
    [] r.handler = "action_get_my_reports" -> ActionGetMyReports_response(r, resp)
    [] r.handler = "action_get_daily_mission" -> ActionGetDailyMission_response(r, resp)
    [] r.handler = "action_get_leaderboard_top" -> ActionGetLeaderboardTop_response(r, resp)
    [] r.handler = "action_create_health_report" -> ActionCreateHealthReport_response(r, resp)
    [] r.handler = "action_send_connection_request" /\ r.pc = "search" ->
         ActionSendConnectionRequest_search_response(r, resp)
    [] OTHER -> ActionSendConnectionRequest_post_response(r, resp)

\* The handler run alone on a context and on the backend answers, in order.
RECURSIVE AloneFrom(_, _)
AloneFrom(r, responses) ==
  IF responses = <<>> \/ r.pc \in {"done", "raised"} THEN r
  ELSE AloneFrom(AloneAnswered(r, Head(responses)), Tail(responses))

RunAlone(handler, tracker, responses) ==
  AloneFrom(AloneCalled(handler, tracker), responses)

\* C11: invocations for different sessions never interfere: however the steps
\* of concurrent invocations interleave, each invocation's messages and events
\* (and its requests, its position and its fault) are those the same handler
\* produces when run alone on the same context and the same backend answers,
\* and the knowledge table is the one loaded at start in every reachable state.
C11_NoInterference ==
  /\ pollutant_db = POLLUTANT_DB
  /\ \A s \in Running :
       LET alone == RunAlone(inv[s].handler, inv[s].tracker, inv[s].responses) IN
       /\ inv[s].messages = alone.messages
       /\ inv[s].events = alone.events
       /\ inv[s].http = alone.http
       /\ inv[s].pc = alone.pc
       /\ inv[s].fault = alone.fault

\* Two invocations overlap: the connection request of s1 waits for its POST
\* while s2, called on another context, has been answered by ExplainPollutant
\* (here with the moderation warning), and nothing of it shows in s1.
C11_Witness ==
  /\ DOMAIN inv = ConcSessions
  /\ inv["s1"].handler = "action_send_connection_request"
  /\ inv["s1"].pc = "post"
  /\ Len(inv["s1"].responses) = 1
  /\ inv["s2"].handler = "action_explain_pollutant"
  /\ inv["s2"].pc = "done"
  /\ inv["s2"].tracker # inv["s1"].tracker
  /\ inv["s2"].messages = <<Template("utter_moderation_warning")>>
  /\ inv["s1"].messages = <<>>

====
